---- MODULE Spec2Model ----
(***************************************************************************)
(* Model of the pebble SDK build command.                                  *)
(*   src/pebble/PblBuildCommand.py  PblWafCommand.run, create_sh_cmd_obj,  *)
(*                                  _get_resource_usage                    *)
(*   src/pebble.py                  PbSDKShell.run_action                  *)
(* One run of `pebble build` / `pebble clean` is followed from             *)
(* run_action's call of command.run(args) to run_action's return.  The     *)
(* steps are cut where run() blocks on a child process.                    *)
(***************************************************************************)
EXTENDS Integers, Sequences, FiniteSets, TLC

VARIABLES
    command,            \* args.command
    media,              \* app_info["resources"]["media"]
    build_dir,          \* build/resources/<dir>: exists?, os.listdir order, sizes
    pc,                 \* position of the run
    retval,             \* run(): retval of subprocess.call, <<>> while unset
    interrupted,        \* an interrupt was delivered while the build child ran
    children,           \* build tool children currently running
    transparent_starts, \* number of subprocess.call(cmdLine, shell=True)
    captured_starts,    \* number of cmdObj(*cmdArgs[1:])
    captured_status,    \* exit status of the captured child, <<>> while unset
    stderr,             \* run(): stderr
    raised,             \* exception propagating out of run()
    line_count_calls,   \* calls of _get_line_counts
    analytics_error,    \* what raised inside run()'s try block
    posted,             \* events handed to post_event
    log,                \* logging.error messages
    run_ret,            \* value returned by run(), <<>> while unset
    cmd_evt,            \* analytics.cmdFailEvt / cmdSuccessEvt calls
    handled_by,         \* except clause of run_action that caught `raised`
    shell_ret,          \* value returned by run_action, <<>> while unset
    scan_pc,            \* position of _get_resource_usage
    scan_i,             \* index of res_dict in the for loop
    res_counts,         \* _get_resource_usage: res_counts
    res_sizes,          \* _get_resource_usage: res_sizes
    scan_status         \* how _get_resource_usage ended

vars == <<command, media, build_dir, pc, retval, interrupted, children,
          transparent_starts, captured_starts, captured_status, stderr,
          raised, line_count_calls, analytics_error, posted, log, run_ret,
          cmd_evt, handled_by, shell_ret, scan_pc, scan_i, res_counts,
          res_sizes, scan_status>>

runVars == <<pc, retval, interrupted, children, transparent_starts,
             captured_starts, captured_status, stderr, raised,
             line_count_calls, analytics_error, posted, log, run_ret,
             cmd_evt, handled_by, shell_ret>>

scanVars == <<scan_pc, scan_i, res_counts, res_sizes, scan_status>>

(***************************************************************************)
(* Bounds                                                                  *)
(***************************************************************************)
MaxLen == 4      \* longest captured diagnostic text, in tokens
MaxDesc == 2     \* most declared resources
MaxFiles == 2    \* most generated files in the searched directory
MaxSize == 2     \* largest file size
MaxLines == 1    \* largest line count reported by _get_line_counts

None == <<>>
Some(x) == <<x>>

(***************************************************************************)
(* Diagnostic text.  A text is a sequence of tokens; each marker of run()  *)
(* is a two-token sequence, so that a text can hold a marker, half a       *)
(* marker, or both markers in either order.                                *)
(***************************************************************************)
Tokens == {"Could not determine", "the compiler version",
           "region `APP'", "overflowed", "error"}

CompilerMarker == <<"Could not determine", "the compiler version">>

RegionMarker == <<"region `APP'", "overflowed">>

RECURSIVE SeqsUpTo(_, _)
SeqsUpTo(S, n) ==
    IF n = 0 THEN {<<>>}
    ELSE LET shorter == SeqsUpTo(S, n - 1)
         IN  shorter \cup {Append(s, x) : s \in shorter, x \in S}

Texts == SeqsUpTo(Tokens, MaxLen)

\* Python's `marker in text`: scan the start positions left to right.
RECURSIVE FindFrom(_, _, _)
FindFrom(marker, text, i) ==
    IF i + Len(marker) - 1 > Len(text) THEN FALSE
    ELSE IF SubSeq(text, i, i + Len(marker) - 1) = marker THEN TRUE
    ELSE FindFrom(marker, text, i + 1)

Contains(marker, text) == FindFrom(marker, text, 1)

(***************************************************************************)
(* Exceptions                                                              *)
(***************************************************************************)
NoExc == [cls |-> "none", msg |-> ""]

Exc(c, m) == [cls |-> c, msg |-> m]

ExecutableNotFoundMsg == "The executable could not be found."

Python2Msg == "The Pebble SDK requires python version 2.6 or 2.7"

WafMsg == "Unable to locate waf"

\* create_sh_cmd_obj: sh.Command(cmdPath), then the _path pre-flight.
create_sh_cmd_obj(found) ==
    IF found THEN NoExc ELSE Exc("RuntimeError", ExecutableNotFoundMsg)

\* The if / elif / else over stderr at the end of run()'s failure branch.
Classify_RegionFirst(text) ==
    IF Contains(RegionMarker, text) THEN Exc("AppTooBigException", "")
    ELSE IF Contains(CompilerMarker, text) THEN Exc("NoCompilerException", "")
    ELSE Exc("BuildErrorException", "")

Classify(text) ==
    IF Contains(CompilerMarker, text) THEN Exc("NoCompilerException", "")
    ELSE IF Contains(RegionMarker, text) THEN Exc("AppTooBigException", "")
    ELSE Exc("BuildErrorException", "")

\* The failure category an exception leaving run() stands for.
FailureCategory(e) ==
    IF e.cls = "NoCompilerException" THEN "MissingCompiler"
    ELSE IF e.cls = "AppTooBigException" THEN "ArtifactTooLarge"
    ELSE IF e.cls = "BuildErrorException" THEN "GenericBuildFailure"
    ELSE IF e.cls = "RuntimeError" /\ e.msg = ExecutableNotFoundMsg
         THEN "ToolNotFound"
    ELSE "none"

FatalCategories ==
    {"ToolNotFound", "MissingCompiler", "ArtifactTooLarge",
     "GenericBuildFailure"}

(***************************************************************************)
(* Resource scan: _get_resource_usage                                      *)
(***************************************************************************)
ResourceTypes == {"png", "png-trans", "font", "raw", "bmp"}

Classes == {"raw", "image", "font"}

\* File names are sequences of name parts: "res" is <<"res">>, the
\* generated "res.a" is <<"res", ".a">>.
DeclaredFiles == {<<"res">>, <<"other">>}

Names == {<<"res">>, <<"res", ".a">>, <<"res", ".b">>, <<"other">>}

Descriptors == [type : ResourceTypes, file : DeclaredFiles]

Entries == [name : Names, size : 1..MaxSize]

DistinctNames(l) ==
    \A i, j \in 1..Len(l) : i # j => l[i].name # l[j].name

Listings == {l \in SeqsUpTo(Entries, MaxFiles) : DistinctNames(l)}

BuildDirs ==
    {[exists |-> FALSE, entries |-> <<>>]}
        \cup {[exists |-> TRUE, entries |-> l] : l \in Listings}

ResourceClass(t) ==
    IF t \in {"png", "png-trans"} THEN "image"
    ELSE IF t \in {"font"} THEN "font"
    ELSE IF t \in {"raw"} THEN "raw"
    ELSE "unsupported"

\* name.startswith(filename)
StartsWith(name, filename) ==
    /\ Len(name) >= Len(filename)
    /\ SubSeq(name, 1, Len(filename)) = filename

Matches_NoEqualityGuard(type, name, filename) ==
    \/ type = "raw" /\ name = filename
    \/ type # "raw" /\ StartsWith(name, filename)

\* The condition of the if inside `for name in os.listdir(dir_to_search)`.
Matches(type, name, filename) ==
    \/ type = "raw" /\ name = filename
    \/ type # "raw" /\ StartsWith(name, filename) /\ name # filename

\* The inner for loop: index of the entry at which it breaks, 0 if it
\* runs off the end of the listing.
RECURSIVE FirstMatch(_, _, _, _)
FirstMatch(entries, type, filename, k) ==
    IF k > Len(entries) THEN 0
    ELSE IF Matches(type, entries[k].name, filename) THEN k
    ELSE FirstMatch(entries, type, filename, k + 1)

\* One pass of the outer for loop over the declared resources.
ScanBody(res_dict, dir, counts, sizes) ==
    LET type == ResourceClass(res_dict.type)
        k == FirstMatch(dir.entries, type, res_dict.file, 1)
    IN  IF type = "unsupported"
        THEN [status |-> "UnsupportedResourceType",
              counts |-> counts, sizes |-> sizes]
        ELSE IF ~dir.exists
        THEN [status |-> "OSError", counts |-> counts, sizes |-> sizes]
        ELSE IF k = 0
        THEN [status |-> "ResourceNotFound",
              counts |-> counts, sizes |-> sizes]
        ELSE [status |-> "ok",
              counts |-> [counts EXCEPT ![type] = @ + 1],
              sizes |-> [sizes EXCEPT ![type] = @ + dir.entries[k].size]]

ZeroByClass == [c \in Classes |-> 0]

\* The whole of _get_resource_usage, from descriptor i on.
RECURSIVE ScanFrom(_, _, _, _, _)
ScanFrom(m, dir, i, counts, sizes) ==
    IF i > Len(m)
    THEN [status |-> "ok", counts |-> counts, sizes |-> sizes]
    ELSE LET r == ScanBody(m[i], dir, counts, sizes)
         IN  IF r.status # "ok" THEN r
             ELSE ScanFrom(m, dir, i + 1, r.counts, r.sizes)

_get_resource_usage(m, dir) == ScanFrom(m, dir, 1, ZeroByClass, ZeroByClass)

ScanDescriptor ==
    /\ scan_pc = "loop"
    /\ scan_i <= Len(media)
    /\ LET r == ScanBody(media[scan_i], build_dir, res_counts, res_sizes)
       IN  IF r.status = "ok"
           THEN /\ res_counts' = r.counts
                /\ res_sizes' = r.sizes
                /\ scan_i' = scan_i + 1
                /\ UNCHANGED <<scan_pc, scan_status>>
           ELSE /\ scan_status' = r.status
                /\ scan_pc' = "raised"
                /\ UNCHANGED <<res_counts, res_sizes, scan_i>>
    /\ UNCHANGED <<command, media, build_dir>>
    /\ UNCHANGED runVars

ScanReturn ==
    /\ scan_pc = "loop"
    /\ scan_i > Len(media)
    /\ scan_status' = "ok"
    /\ scan_pc' = "returned"
    /\ UNCHANGED <<res_counts, res_sizes, scan_i>>
    /\ UNCHANGED <<command, media, build_dir>>
    /\ UNCHANGED runVars

(***************************************************************************)
(* The build lifecycle: PblWafCommand.run                                  *)
(***************************************************************************)
Commands == {"build", "clean"}

ExitStatuses == {0, 1}

\* What subprocess.call returns when only the child took the signal.
SignalStatuses == {-2, 130}

AnalyticsLogMsg == "Exception occurred collecting app analytics"

RunInitial ==
    /\ pc = "idle"
    /\ retval = None
    /\ interrupted = FALSE
    /\ children = {}
    /\ transparent_starts = 0
    /\ captured_starts = 0
    /\ captured_status = None
    /\ stderr = <<>>
    /\ raised = NoExc
    /\ line_count_calls = 0
    /\ analytics_error = "none"
    /\ posted = <<>>
    /\ log = <<>>
    /\ run_ret = None
    /\ cmd_evt = <<>>
    /\ handled_by = "none"
    /\ shell_ret = None

ScanInitial ==
    /\ scan_i = 1
    /\ res_counts = ZeroByClass
    /\ res_sizes = ZeroByClass
    /\ scan_status = "none"

\* Projects the build lifecycle is run against.
SampleProjects ==
    { [media |-> <<>>,
       dir |-> [exists |-> TRUE, entries |-> <<>>]],
      [media |-> <<[type |-> "raw", file |-> <<"res">>]>>,
       dir |-> [exists |-> TRUE,
                entries |-> <<[name |-> <<"res">>, size |-> 1]>>]],
      [media |-> <<[type |-> "font", file |-> <<"res">>]>>,
       dir |-> [exists |-> TRUE,
                entries |-> <<[name |-> <<"res">>, size |-> 1]>>]],
      [media |-> <<[type |-> "bmp", file |-> <<"res">>]>>,
       dir |-> [exists |-> TRUE,
                entries |-> <<[name |-> <<"res", ".a">>, size |-> 1]>>]] }

Init ==
    /\ command \in Commands
    /\ \E p \in SampleProjects : media = p.media /\ build_dir = p.dir
    /\ RunInitial
    /\ ScanInitial
    /\ scan_pc = "idle"

\* run() up to and including the start of subprocess.call: the python
\* version check, waf_path, then the transparent child is started.
RunPreflight ==
    /\ pc = "idle"
    /\ \E outcome \in {"ok", "no_python2", "no_waf"} :
         IF outcome = "ok"
         THEN /\ transparent_starts' = transparent_starts + 1
              /\ children' = children \cup {"transparent"}
              /\ pc' = "building"
              /\ UNCHANGED raised
         ELSE /\ raised' = IF outcome = "no_python2"
                           THEN Exc("RuntimeError", Python2Msg)
                           ELSE Exc("Exception", WafMsg)
              /\ pc' = "raised"
              /\ UNCHANGED <<transparent_starts, children>>
    /\ UNCHANGED <<command, media, build_dir, retval, interrupted,
                   captured_starts, captured_status, stderr,
                   line_count_calls, analytics_error, posted, log, run_ret,
                   cmd_evt, handled_by, shell_ret>>
    /\ UNCHANGED scanVars

\* run() from the return of subprocess.call to its next blocking point.
AfterBuild_NoCommandCheck(status, found) ==
    /\ retval' = Some(status)
    /\ IF status # 0
       THEN LET e == create_sh_cmd_obj(found)
            IN  IF e = NoExc
                THEN /\ captured_starts' = captured_starts + 1
                     /\ children' = {"captured"}
                     /\ pc' = "capturing"
                     /\ UNCHANGED <<raised, run_ret>>
                ELSE /\ raised' = e
                     /\ children' = {}
                     /\ pc' = "raised"
                     /\ UNCHANGED <<captured_starts, run_ret>>
       ELSE /\ pc' = "collecting"
            /\ children' = {}
            /\ UNCHANGED <<captured_starts, raised, run_ret>>

AfterBuild_AlwaysCapture(status, found) ==
    /\ retval' = Some(status)
    /\ LET e == create_sh_cmd_obj(found)
       IN  IF e = NoExc
           THEN /\ captured_starts' = captured_starts + 1
                /\ children' = {"captured"}
                /\ pc' = "capturing"
                /\ UNCHANGED <<raised, run_ret>>
           ELSE /\ raised' = e
                /\ children' = {}
                /\ pc' = "raised"
                /\ UNCHANGED <<captured_starts, run_ret>>

AfterBuild(status, found) ==
    /\ retval' = Some(status)
    /\ IF status # 0
       THEN LET e == create_sh_cmd_obj(found)
            IN  IF e = NoExc
                THEN /\ captured_starts' = captured_starts + 1
                     /\ children' = {"captured"}
                     /\ pc' = "capturing"
                     /\ UNCHANGED <<raised, run_ret>>
                ELSE /\ raised' = e
                     /\ children' = {}
                     /\ pc' = "raised"
                     /\ UNCHANGED <<captured_starts, run_ret>>
       ELSE IF command = "build"
       THEN /\ pc' = "collecting"
            /\ children' = {}
            /\ UNCHANGED <<captured_starts, raised, run_ret>>
       ELSE /\ run_ret' = Some(0)
            /\ pc' = "returned"
            /\ children' = {}
            /\ UNCHANGED <<captured_starts, raised>>

\* The transparent child exits by itself.
BuildExits ==
    /\ pc = "building"
    /\ \E status \in ExitStatuses, found \in BOOLEAN :
         AfterBuild(status, found)
    /\ UNCHANGED <<command, media, build_dir, interrupted,
                   transparent_starts, captured_status, stderr,
                   line_count_calls, analytics_error, posted, log,
                   cmd_evt, handled_by, shell_ret>>
    /\ UNCHANGED scanVars

\* An interrupt arrives while the transparent child runs.  Delivered to the
\* orchestrator's process it surfaces as KeyboardInterrupt inside
\* subprocess.call; delivered to the child only it surfaces as the child's
\* exit status.
BuildInterrupted ==
    /\ pc = "building"
    /\ interrupted' = TRUE
    /\ \/ /\ raised' = Exc("KeyboardInterrupt", "")
          /\ children' = {}
          /\ pc' = "raised"
          /\ UNCHANGED <<retval, captured_starts, run_ret>>
       \/ \E status \in SignalStatuses, found \in BOOLEAN :
            AfterBuild(status, found)
    /\ UNCHANGED <<command, media, build_dir, transparent_starts,
                   captured_status, stderr, line_count_calls,
                   analytics_error, posted, log, cmd_evt, handled_by,
                   shell_ret>>
    /\ UNCHANGED scanVars

\* The captured child exits: stderr is output.stderr or e.stderr, and the
\* text is classified.
CapturedExits_ZeroIsSuccess ==
    /\ pc = "capturing"
    /\ \E status \in ExitStatuses, text \in Texts :
         /\ captured_status' = Some(status)
         /\ stderr' = text
         /\ IF status = 0
            THEN /\ run_ret' = Some(0)
                 /\ pc' = "returned"
                 /\ UNCHANGED raised
            ELSE /\ raised' = Classify(text)
                 /\ pc' = "raised"
                 /\ UNCHANGED run_ret
    /\ children' = {}
    /\ UNCHANGED <<command, media, build_dir, retval, interrupted,
                   transparent_starts, captured_starts, line_count_calls,
                   analytics_error, posted, log, cmd_evt,
                   handled_by, shell_ret>>
    /\ UNCHANGED scanVars

CapturedExits ==
    /\ pc = "capturing"
    /\ \E status \in ExitStatuses, text \in Texts :
         /\ captured_status' = Some(status)
         /\ stderr' = text
         /\ raised' = Classify(text)
    /\ children' = {}
    /\ pc' = "raised"
    /\ UNCHANGED <<command, media, build_dir, retval, interrupted,
                   transparent_starts, captured_starts, line_count_calls,
                   analytics_error, posted, log, run_ret, cmd_evt,
                   handled_by, shell_ret>>
    /\ UNCHANGED scanVars

\* What _get_line_counts hands back: a report, or an error from listing or
\* reading the source tree.
LineCountOutcomes ==
    {[status |-> "raise", c_line_count |-> 0, js_line_count |-> 0]}
        \cup [status : {"ok"}, c_line_count : 0..MaxLines,
              js_line_count : 0..MaxLines]

\* post_event either takes the event, or raises before or after the event
\* has left.
PostOutcomes == {"ok", "raise_unsent", "raise_sent"}

BuildSucceededEvent(has_js, lc) ==
    [name |-> "app_build_succeeded", has_js |-> has_js,
     line_counts |-> [c_line_count |-> lc.c_line_count,
                      js_line_count |-> lc.js_line_count]]

\* The body of the try block: has_js, _get_line_counts(), post_event(...).
\* The arguments of post_event are evaluated before it is called.
AnalyticsTry_CountsAfterPost(has_js, lc, pe) ==
    IF pe = "ok" /\ lc.status = "raise"
    THEN [error |-> "line_counts", sent |-> <<BuildSucceededEvent(has_js, lc)>>]
    ELSE IF pe = "ok"
    THEN [error |-> "none", sent |-> <<BuildSucceededEvent(has_js, lc)>>]
    ELSE [error |-> "post_event",
          sent |-> IF pe = "raise_sent"
                   THEN <<BuildSucceededEvent(has_js, lc)>> ELSE <<>>]

AnalyticsTry(has_js, lc, pe) ==
    IF lc.status = "raise"
    THEN [error |-> "line_counts", sent |-> <<>>]
    ELSE IF pe = "ok"
    THEN [error |-> "none", sent |-> <<BuildSucceededEvent(has_js, lc)>>]
    ELSE [error |-> "post_event",
          sent |-> IF pe = "raise_sent"
                   THEN <<BuildSucceededEvent(has_js, lc)>> ELSE <<>>]

\* `except Exception as e` around the try block, then `return 0`.
AnalyticsExcept_NoCatch(error) ==
    IF error # "none"
    THEN /\ raised' = Exc("IOError", error)
         /\ pc' = "raised"
         /\ UNCHANGED <<log, run_ret>>
    ELSE /\ run_ret' = Some(0)
         /\ pc' = "returned"
         /\ UNCHANGED <<log, raised>>

AnalyticsExcept_ScanFatal(error) ==
    IF _get_resource_usage(media, build_dir).status
           \in {"ResourceNotFound", "UnsupportedResourceType"}
    THEN /\ raised' = Exc("RuntimeError",
                          _get_resource_usage(media, build_dir).status)
         /\ pc' = "raised"
         /\ UNCHANGED <<log, run_ret>>
    ELSE /\ log' = IF error # "none" THEN Append(log, AnalyticsLogMsg)
                   ELSE log
         /\ run_ret' = Some(0)
         /\ pc' = "returned"
         /\ UNCHANGED raised

AnalyticsExcept(error) ==
    /\ log' = IF error # "none" THEN Append(log, AnalyticsLogMsg) ELSE log
    /\ run_ret' = Some(0)
    /\ pc' = "returned"
    /\ UNCHANGED raised

\* The elif branch of run(): a build that exited 0.
CollectAnalytics ==
    /\ pc = "collecting"
    /\ \E has_js \in BOOLEAN, lc \in LineCountOutcomes, pe \in PostOutcomes :
         LET t == AnalyticsTry(has_js, lc, pe)
         IN  /\ line_count_calls' = line_count_calls + 1
             /\ analytics_error' = t.error
             /\ posted' = posted \o t.sent
             /\ AnalyticsExcept(t.error)
    /\ UNCHANGED <<command, media, build_dir, retval, interrupted, children,
                   transparent_starts, captured_starts, captured_status,
                   stderr, cmd_evt, handled_by, shell_ret>>
    /\ UNCHANGED scanVars

(***************************************************************************)
(* The dispatcher: PbSDKShell.run_action                                   *)
(***************************************************************************)
\* Base class of each exception class that can leave run().
ExceptionBase(cls) ==
    IF cls \in {"NoCompilerException", "BuildErrorException",
                "AppTooBigException", "RuntimeError", "IOError"}
    THEN "Exception"
    ELSE "BaseException"

RECURSIVE IsInstance(_, _)
IsInstance(cls, handler) ==
    IF cls = handler THEN TRUE
    ELSE IF cls = "BaseException" THEN FALSE
    ELSE IsInstance(ExceptionBase(cls), handler)

\* The except clauses of run_action, in source order.
HandlerChain ==
    <<"PebbleError", "ConfigurationException", "InvalidProjectException",
      "OutdatedProjectException", "NoCompilerException",
      "BuildErrorException", "Exception">>

RECURSIVE FirstHandler(_, _)
FirstHandler(cls, k) ==
    IF k > Len(HandlerChain) THEN "uncaught"
    ELSE IF IsInstance(cls, HandlerChain[k]) THEN HandlerChain[k]
    ELSE FirstHandler(cls, k + 1)

\* The reason each except clause passes to analytics.cmdFailEvt.
HandlerReason(handler, e) ==
    IF handler = "PebbleError" THEN <<"pebble error", "">>
    ELSE IF handler = "ConfigurationException"
         THEN <<"configuration error", "">>
    ELSE IF handler = "InvalidProjectException"
         THEN <<"invalid project", "">>
    ELSE IF handler = "OutdatedProjectException"
         THEN <<"outdated project", "">>
    ELSE IF handler = "NoCompilerException"
         THEN <<"missing compiler/linker", "">>
    ELSE IF handler = "BuildErrorException"
         THEN <<"compilation error", "">>
    ELSE <<"unhandled exception", e.msg>>

\* The message each except clause logs.
HandlerMessage(handler, e) ==
    IF handler = "InvalidProjectException"
    THEN "This command must be run from a Pebble project directory"
    ELSE IF handler = "OutdatedProjectException"
    THEN "The Pebble project directory is using an outdated version of the SDK!"
    ELSE IF handler = "NoCompilerException"
    THEN "The compiler/linker tools could not be found"
    ELSE IF handler = "BuildErrorException"
    THEN "A compilation error occurred"
    ELSE e.msg

\* run_action after command.run(args) has returned or raised.
RunActionHandle ==
    /\ pc \in {"returned", "raised"}
    /\ IF pc = "returned"
       THEN /\ cmd_evt' = IF run_ret[1] # 0
                          THEN Append(cmd_evt, <<"fail", command,
                                                 <<"unknown error", "">>>>)
                          ELSE Append(cmd_evt, <<"success", command,
                                                 <<"", "">>>>)
            /\ shell_ret' = run_ret
            /\ UNCHANGED <<handled_by, log>>
       ELSE LET h == FirstHandler(raised.cls, 1)
            IN  /\ handled_by' = h
                /\ IF h = "uncaught"
                   THEN UNCHANGED <<cmd_evt, log, shell_ret>>
                   ELSE /\ cmd_evt' = Append(cmd_evt,
                               <<"fail", command, HandlerReason(h, raised)>>)
                        /\ log' = Append(log, HandlerMessage(h, raised))
                        /\ shell_ret' = Some(1)
    /\ pc' = "done"
    /\ UNCHANGED <<command, media, build_dir, retval, interrupted, children,
                   transparent_starts, captured_starts, captured_status,
                   stderr, raised, line_count_calls, analytics_error, posted,
                   run_ret>>
    /\ UNCHANGED scanVars

Next ==
    \/ RunPreflight
    \/ BuildExits
    \/ BuildInterrupted
    \/ CapturedExits
    \/ CollectAnalytics
    \/ RunActionHandle

Spec == Init /\ [][Next]_vars

(***************************************************************************)
(* The resource scan on its own, over every bounded project.               *)
(***************************************************************************)
InitScan ==
    /\ command = "build"
    /\ media \in SeqsUpTo(Descriptors, MaxDesc)
    /\ build_dir \in BuildDirs
    /\ RunInitial
    /\ ScanInitial
    /\ scan_pc = "loop"

NextScan ==
    \/ ScanDescriptor
    \/ ScanReturn

SpecScan == InitScan /\ [][NextScan]_vars

Terminal == pc = "done"

RunEnded == pc \in {"returned", "raised", "done"}

(***************************************************************************)
(* Properties                                                              *)
(***************************************************************************)
\* m occurs in t as a contiguous run of tokens.
HasMarker(m, t) ==
    \E i \in 1..Len(t) :
        /\ i + Len(m) - 1 <= Len(t)
        /\ \A j \in 1..Len(m) : t[i + j - 1] = m[j]

BuildFailed == retval # None /\ retval[1] # 0

BuildSucceeded == retval = Some(0)

\* C1: the failure category is decided by the captured text alone, first
\* match wins: a text with the compiler-version marker gives MissingCompiler
\* (also when the region-overflowed marker is there too), a text with the
\* region-overflowed marker and no compiler marker gives ArtifactTooLarge,
\* a text with neither gives GenericBuildFailure.
Thm_C1 ==
    captured_status # None =>
        /\ HasMarker(CompilerMarker, stderr)
               => FailureCategory(raised) = "MissingCompiler"
        /\ (HasMarker(RegionMarker, stderr)
                /\ ~HasMarker(CompilerMarker, stderr))
               => FailureCategory(raised) = "ArtifactTooLarge"
        /\ (~HasMarker(RegionMarker, stderr)
                /\ ~HasMarker(CompilerMarker, stderr))
               => FailureCategory(raised) = "GenericBuildFailure"

Wit_C1 ==
    /\ pc = "done"
    /\ HasMarker(CompilerMarker, stderr)
    /\ HasMarker(RegionMarker, stderr)
    /\ FailureCategory(raised) = "MissingCompiler"

\* C2: when the transparent build exits nonzero, no build-success event is
\* ever posted, run() never returns, and the run ends with one of the four
\* fatal categories, whether the captured child exits nonzero, exits zero
\* or cannot be started.
Thm_C2 ==
    BuildFailed =>
        /\ posted = <<>>
        /\ run_ret = None
        /\ pc # "collecting"
        /\ RunEnded => FailureCategory(raised) \in FatalCategories

Wit_C2 ==
    /\ pc = "done"
    /\ retval = Some(1)
    /\ captured_status = Some(0)
    /\ FailureCategory(raised) = "GenericBuildFailure"

\* C3 as stated: every build run whose transparent build exited 0 has posted
\* exactly one build-success event when it ends, also when collecting the
\* metrics raised.
Orig_C3 ==
    (pc = "done" /\ BuildSucceeded /\ command = "build")
        => Len(posted) = 1

\* C3 amended: such a run posts at most one build-success event; exactly one
\* when nothing in the try block raised, none when _get_line_counts raised
\* (post_event is then never called).
Thm_C3 ==
    (RunEnded /\ BuildSucceeded /\ command = "build") =>
        /\ Len(posted) <= 1
        /\ analytics_error = "none" => Len(posted) = 1
        /\ analytics_error = "line_counts" => Len(posted) = 0

Wit_C3 ==
    /\ pc = "done"
    /\ BuildSucceeded
    /\ command = "build"
    /\ analytics_error = "line_counts"
    /\ posted = <<>>

\* C4: after a build that exited 0, an exception raised while collecting
\* metrics or posting the event is caught and logged; run() returns 0 and
\* run_action records command success and returns 0.
Thm_C4 ==
    (BuildSucceeded /\ analytics_error # "none") =>
        /\ raised = NoExc
        /\ run_ret = Some(0)
        /\ \E k \in 1..Len(log) : log[k] = AnalyticsLogMsg
        /\ pc = "done" =>
               /\ shell_ret = Some(0)
               /\ cmd_evt = <<(<<"success", command, <<"", "">>>>)>>
               /\ handled_by = "none"

Wit_C4 ==
    /\ pc = "done"
    /\ BuildSucceeded
    /\ analytics_error = "post_event"
    /\ shell_ret = Some(0)

\* The declared resources do not resolve: the scan would raise
\* ResourceNotFound or UnsupportedResourceType.
ScanFailsFatal ==
    _get_resource_usage(media, build_dir).status
        \in {"ResourceNotFound", "UnsupportedResourceType"}

Orig_C6 ==
    interrupted =>
        /\ captured_starts = 0
        /\ FailureCategory(raised) = "none"

\* C7: metrics are collected and the build-success event is posted only
\* after the transparent build has exited 0 and only for the build command;
\* a clean run, or a run whose build exited nonzero, collects nothing and
\* posts nothing.
Thm_C7 ==
    /\ (line_count_calls > 0 \/ posted # <<>> \/ pc = "collecting")
           => (BuildSucceeded /\ command = "build")
    /\ (command # "build" \/ BuildFailed)
           => (line_count_calls = 0 /\ posted = <<>>)

Wit_C7 ==
    /\ pc = "done"
    /\ command = "clean"
    /\ BuildSucceeded
    /\ line_count_calls = 0
    /\ posted = <<>>

\* C8 as stated: MissingCompiler, ArtifactTooLarge and GenericBuildFailure
\* are each caught by an except clause of their own in run_action, not by
\* the generic one, and run_action returns nonzero.
Orig_C8 ==
    (pc = "done"
        /\ FailureCategory(raised)
               \in {"MissingCompiler", "ArtifactTooLarge",
                    "GenericBuildFailure"}) =>
        /\ handled_by = raised.cls
        /\ cmd_evt[1][3][1] # "unhandled exception"
        /\ shell_ret = Some(1)

PreflightFailed == raised.msg \in {Python2Msg, WafMsg}

\* C9 as stated: in every run the build tool is started exactly once in
\* transparent mode and at most once more in captured mode, never two at a
\* time, the captured start coming only after a nonzero transparent exit
\* status.
Orig_C9 ==
    /\ Cardinality(children) <= 1
    /\ transparent_starts <= 1
    /\ captured_starts <= 1
    /\ captured_starts = 1 =>
           (BuildFailed /\ transparent_starts = 1
                /\ "transparent" \notin children)
    /\ RunEnded => transparent_starts = 1

\* C9 amended: the same, except that the transparent start happens exactly
\* once only in runs that get as far as the build step; a run stopped by the
\* python version check or by waf_path starts the build tool not at all.
Thm_C9 ==
    /\ Cardinality(children) <= 1
    /\ transparent_starts <= 1
    /\ captured_starts <= 1
    /\ captured_starts = 1 =>
           (BuildFailed /\ transparent_starts = 1
                /\ "transparent" \notin children)
    /\ RunEnded =>
           transparent_starts = (IF PreflightFailed THEN 0 ELSE 1)

Wit_C9 ==
    /\ pc = "done"
    /\ transparent_starts = 1
    /\ captured_starts = 1
    /\ children = {}

\* n is filename followed by at least one more name part.
ProperExtension(n, filename) ==
    /\ Len(n) > Len(filename)
    /\ \A j \in 1..Len(filename) : n[j] = filename[j]

Supported(d) == d.type \in {"png", "png-trans", "font", "raw"}

DeclaredClass(d) ==
    CASE d.type = "raw" -> "raw"
      [] d.type = "font" -> "font"
      [] OTHER -> "image"

\* Positions in the listing of the generated files that satisfy the
\* matching rule for descriptor d.
MatchSet(d) ==
    {k \in 1..Len(build_dir.entries) :
        IF d.type = "raw"
        THEN build_dir.entries[k].name = d.file
        ELSE ProperExtension(build_dir.entries[k].name, d.file)}

FirstOf(S) == CHOOSE k \in S : \A j \in S : k <= j

RECURSIVE SumChosen(_, _)
SumChosen(c, n) ==
    IF n = 0 THEN 0
    ELSE SumChosen(c, n - 1)
           + (IF DeclaredClass(media[n]) = c
              THEN build_dir.entries[FirstOf(MatchSet(media[n]))].size
              ELSE 0)

\* C10 as stated: the scan returns only if every declared resource has
\* exactly one matching generated file.
Orig_C10 ==
    scan_pc = "returned" =>
        \A i \in 1..Len(media) : Cardinality(MatchSet(media[i])) = 1

\* C10 amended: the scan returns only if every declared resource has a
\* supported type and at least one matching generated file, and fails
\* otherwise; a resource with several matching files does not fail the scan,
\* the first match in listing order is taken.  On return the counts sum to
\* the number of descriptors and each class size is the sum of the sizes of
\* the files taken for that class.
Thm_C10 ==
    /\ scan_pc = "returned" =>
           /\ \A i \in 1..Len(media) :
                  Supported(media[i]) /\ MatchSet(media[i]) # {}
           /\ res_counts["raw"] + res_counts["image"] + res_counts["font"]
                  = Len(media)
           /\ \A c \in Classes :
                  /\ res_counts[c]
                         = Cardinality({i \in 1..Len(media) :
                                           DeclaredClass(media[i]) = c})
                  /\ res_sizes[c] = SumChosen(c, Len(media))
    /\ scan_pc = "raised" =>
           \E i \in 1..Len(media) :
               ~Supported(media[i]) \/ MatchSet(media[i]) = {}
    /\ (scan_pc = "loop" /\ scan_i > 1) =>
           \A i \in 1..(scan_i - 1) :
               Supported(media[i]) /\ MatchSet(media[i]) # {}

Wit_C10 ==
    /\ scan_pc = "returned"
    /\ Len(media) = 2
    /\ \E i \in 1..Len(media) : Cardinality(MatchSet(media[i])) = 2
====
